---- MODULE Spec2Model ----
(***************************************************************************)
(* Smart Factory bridge server (python-middleware/server.py).              *)
(*                                                                         *)
(* The model follows FactoryBridgeHandler.do_POST and its helpers one      *)
(* storage call at a time.  The store (Supabase) is the three tables the   *)
(* handler touches: the per-factory telemetry partitions, "factories" and  *)
(* "system_alerts".  Every storage call either takes effect or raises.     *)
(*                                                                         *)
(* JSON values are tagged tuples: <<"str", s>>, <<"num", n>>, <<"null">>,  *)
(* <<"bool", b>>, <<"list">>.  Numbers are integers in hundredths          *)
(* (30.0 is 3000), which is enough for the "%.1f" formatting of messages.  *)
(***************************************************************************)
EXTENDS Integers, Sequences, FiniteSets, TLC

(***************************************************************************)
(* Bounds                                                                  *)
(***************************************************************************)
MaxRequests == 2      \* ingest requests received in one behaviour
NumHandlers == 2      \* handlers that may be in flight together (SpecConc)

Handlers == 1..NumHandlers

(***************************************************************************)
(* Configuration (server.py lines 42-56)                                   *)
(***************************************************************************)
DEFAULT_FACTORY == "factory_1"
FACTORY_MAPPING == [factory_1 |-> "factory_1_data", factory_2 |-> "factory_2_data"]
factory_lookup == [factory_1 |-> 1, factory_2 |-> 2]
temperature_high == 3000
temperature_low == 1500
battery_low == 1500

Tables == {"factory_1_data", "factory_2_data"}
FactoryPks == {1, 2}

(***************************************************************************)
(* JSON values                                                             *)
(***************************************************************************)
None == <<"null">>
Str(s) == <<"str", s>>
Num(n) == <<"num", n>>
Bool(b) == <<"bool", b>>
List == <<"list">>
\* an integer literal whose magnitude is beyond the range of a float
BigInt == <<"bigint">>

IsStr(v) == v[1] = "str"
IsNum(v) == v[1] = "num"
IsNone(v) == v[1] = "null"

\* dict.get(key) and dict.get(key, default)
Get(d, k) == IF k \in DOMAIN d THEN d[k] ELSE None
GetD(d, k, dflt) == IF k \in DOMAIN d THEN d[k] ELSE dflt

\* Python truthiness of a JSON value
Truthy(v) ==
    CASE v[1] = "null" -> FALSE
      [] v[1] = "num"  -> v[2] # 0
      [] v[1] = "bool" -> v[2]
      [] v[1] = "str"  -> v[2] # ""
      [] OTHER         -> TRUE

\* dict keys must be hashable: a JSON array or object is not
Hashable(v) == v[1] # "list"

\* format(v, "<20") inside an f-string: str, int, float and bool accept the
\* format spec; None, list and dict raise TypeError
Formattable(v) == v[1] \in {"str", "num", "bool", "bigint"}

(***************************************************************************)
(* Strings on which the code works character by character                  *)
(***************************************************************************)
Chars(s) ==
    CASE s = "FIRE_1"    -> <<"F", "I", "R", "E", "_", "1">>
      [] s = "fire"      -> <<"f", "i", "r", "e">>
      [] s = "FIRE_SAFE" -> <<"F", "I", "R", "E", "_", "S", "A", "F", "E">>
      [] s = "SAFE"      -> <<"S", "A", "F", "E">>
      [] s = "None"      -> <<"N", "o", "n", "e">>
      [] s = "FIRE"      -> <<"F", "I", "R", "E">>
      [] s = "smoke"     -> <<"s", "m", "o", "k", "e">>
      [] s = ""          -> <<>>

UpperChar(c) ==
    CASE c = "f" -> "F" [] c = "i" -> "I" [] c = "r" -> "R" [] c = "e" -> "E"
      [] c = "o" -> "O" [] c = "n" -> "N" [] c = "s" -> "S" [] c = "a" -> "A"
      [] c = "m" -> "M" [] c = "k" -> "K"
      [] OTHER -> c

\* str.upper()
Upper(cs) == [i \in 1..Len(cs) |-> UpperChar(cs[i])]

\* needle in haystack (substring test)
Contains(hay, needle) ==
    \E i \in 0..(Len(hay) - Len(needle)) :
        \A j \in 1..Len(needle) : hay[i + j] = needle[j]

\* str(v) for the values a status field takes
PyStr(v) == IF IsNone(v) THEN Chars("None") ELSE Chars(v[2])

(***************************************************************************)
(* Request bodies                                                          *)
(***************************************************************************)
Obj(d) == [kind |-> "object", data |-> d]

Fire(status, sv) ==
    [system |-> Str("Fire_Control"), status |-> Str(status),
     sensor_value |-> Num(sv), siren |-> Num(100), sprinkler |-> Num(100)]
Hvac(t) ==
    [system |-> Str("HVAC_System"), temperature |-> t, ac_status |-> Str("ON"),
     ac2_status |-> Str("OFF"), furnace_status |-> Str("OFF")]
Battery(b) ==
    [system |-> Str("Battery_System"), battery_level |-> b, led_intensity |-> Num(5000)]
SafeRoom(a) ==
    [system |-> Str("Safe_Room"), last_card |-> Str("C1"), access |-> Str(a),
     door |-> Str("LOCKED"), webcam |-> Str("ON")]

FireBodies ==
    {Obj(Fire("FIRE_1", 100)), Obj(Fire("FIRE_1", 200)), Obj(Fire("SAFE", 0)),
     Obj(Fire("FIRE_1", 100) @@ [factory |-> Str("factory_2")]),
     Obj(Fire("FIRE_1", 100) @@ [factory |-> Str("factory_9")]),
     Obj(Fire("FIRE_1", 100) @@ [factory |-> None])}
HvacBodies ==
    {Obj(Hvac(Num(3500))), Obj(Hvac(Num(2000))), Obj(Hvac(Num(1000)))}
BatteryBodies ==
    {Obj(Battery(Num(1000))), Obj(Battery(Num(5000)))}
SafeRoomBodies ==
    {Obj(SafeRoom("DENIED"))}
UnknownBodies ==
    {Obj([status |-> Str("FIRE_1")]),
     Obj([system |-> Str("Other"), status |-> Str("FIRE_1")]),
     Obj([system |-> None, status |-> Str("FIRE_1")]),
     Obj([system |-> Str("Fire_Control"), factory |-> List, status |-> Str("FIRE_1")])}
BadBodies ==
    {[kind |-> "bad_json"], [kind |-> "bad_utf8"], [kind |-> "non_object"]}

Bodies == FireBodies \cup HvacBodies \cup BatteryBodies \cup SafeRoomBodies
              \cup UnknownBodies \cup BadBodies

\* a payload without one of its keys
Without(d, k) == [x \in DOMAIN d \ {k} |-> d[x]]

Conveyor(status) ==
    [system |-> Str("Conveyor_Belt"), order_count |-> Num(300), sensor_value |-> Num(100),
     status |-> Str(status)]

\* readings of the recognized subsystems of the default factory: every
\* branch of the alert rules, the thresholds themselves included
ReadingBodies ==
    {Obj(Fire("FIRE_1", 100)), Obj(Fire("FIRE_1", 200)), Obj(Fire("fire", 100)),
     Obj(Fire("FIRE_SAFE", 100)), Obj(Fire("SAFE", 0)), Obj(Fire("smoke", 100)),
     Obj(Without(Fire("FIRE_1", 100), "status")),
     Obj(Conveyor("FIRE_1")),
     Obj(Hvac(Num(3500))), Obj(Hvac(Num(3000))), Obj(Hvac(Num(2000))),
     Obj(Hvac(Num(1500))), Obj(Hvac(Num(1000))),
     Obj(Hvac(Str("35.5"))), Obj(Hvac(Str("not-a-number"))), Obj(Hvac(None)),
     Obj(Hvac(BigInt)),
     Obj(Without(Hvac(None), "temperature")),
     Obj(Battery(Num(0))), Obj(Battery(Num(500))), Obj(Battery(Num(1000))),
     Obj(Battery(Num(1500))), Obj(Battery(Num(5000))), Obj(Battery(Str("low"))),
     Obj(Without(Battery(None), "battery_level")),
     Obj(SafeRoom("DENIED")), Obj(SafeRoom("GRANTED"))}

\* the requests sent while several handlers are in flight: senders that
\* assert or clear the same alert, and a neighbour of another factory and
\* subsystem
ConcBodies ==
    {Obj(Fire("FIRE_1", 100)), Obj(Fire("FIRE_1", 200)), Obj(Fire("SAFE", 0)),
     Obj(SafeRoom("DENIED") @@ [factory |-> Str("factory_2")])}

(***************************************************************************)
(* _map_telemetry_data (server.py lines 134-201)                           *)
(***************************************************************************)
\* "ON" if value == 1 else "OFF"   (1 is 100 hundredths)
OnOff(v) == IF v = Num(100) THEN Str("ON") ELSE Str("OFF")

\* float(temp_value) raises OverflowError for an integer beyond the float
\* range; the except clause of lines 188-189 does not catch it
FloatRaises(v) == v = BigInt

\* float(temp_value): numbers convert, a string converts when it spells a
\* number ("35.5"); ValueError and TypeError give None (lines 188-189)
ParseFloat(v) ==
    IF IsNum(v) THEN v
    ELSE IF v = Str("35.5") THEN Num(3550)
    ELSE None

\* the mapper leaves by an exception instead of returning a record
MapRaises(pt_data, system_name) ==
    /\ system_name = Str("HVAC_System")
    /\ FloatRaises(Get(pt_data, "temperature"))

MapTelemetry(pt_data, system_name) ==
    CASE system_name = Str("Fire_Control") ->
            [fire_sensor_val |-> Get(pt_data, "sensor_value"),
             fire_status |-> Get(pt_data, "status"),
             siren_state |-> OnOff(Get(pt_data, "siren")),
             sprinkler_state |-> OnOff(Get(pt_data, "sprinkler"))]
      [] system_name = Str("Conveyor_Belt") ->
            [order_count |-> Get(pt_data, "order_count"),
             conveyor_speed |-> Get(pt_data, "sensor_value"),
             conveyor_status |-> Get(pt_data, "status")]
      [] system_name = Str("Weight_System") ->
            [weight_grams |-> Get(pt_data, "weight_val"),
             weight_status |-> Get(pt_data, "status"),
             servo_angle |-> Get(pt_data, "servo_pos")]
      [] system_name = Str("Garage_Door") ->
            [motion_detected |->
                 IF IsStr(Get(pt_data, "motion_status"))
                 THEN Bool(Get(pt_data, "motion_status") = Str("DETECTED"))
                 ELSE Bool(Truthy(Get(pt_data, "motion_status"))),
             garage_door |-> Get(pt_data, "door_state")]
      [] system_name = Str("Battery_System") ->
            [battery_level |-> Get(pt_data, "battery_level"),
             led_brightness |-> Get(pt_data, "led_intensity")]
      [] system_name = Str("HVAC_System") ->
            (IF IsNone(Get(pt_data, "temperature"))
             THEN <<>>
             ELSE [temperature |-> ParseFloat(Get(pt_data, "temperature"))])
            @@ [ac_state |-> Get(pt_data, "ac_status"),
                ac2_state |-> Get(pt_data, "ac2_status"),
                furnace_state |-> Get(pt_data, "furnace_status")]
      [] system_name = Str("Safe_Room") ->
            [rfid_last_card |-> Get(pt_data, "last_card"),
             access_log |-> Get(pt_data, "access"),
             safe_door |-> Get(pt_data, "door"),
             webcam_status |-> Get(pt_data, "webcam")]
      [] OTHER -> <<>>

(***************************************************************************)
(* Factory routing (do_POST line 96, factory_lookup lines 220-221/246-247) *)
(***************************************************************************)
SystemName(pt_data) == GetD(pt_data, "system", Str("Unknown"))
FactoryId(pt_data) == GetD(pt_data, "factory", Str(DEFAULT_FACTORY))

TableName(factory_id) ==
    IF IsStr(factory_id) /\ factory_id[2] \in DOMAIN FACTORY_MAPPING
    THEN FACTORY_MAPPING[factory_id[2]]
    ELSE FACTORY_MAPPING[DEFAULT_FACTORY]

\* factory_lookup.get(factory_id); 0 stands for None (both are falsy)
FactoryPk(factory_id) ==
    IF IsStr(factory_id) /\ factory_id[2] \in DOMAIN factory_lookup
    THEN factory_lookup[factory_id[2]]
    ELSE 0

(***************************************************************************)
(* Alert rules of _check_and_create_alerts (server.py lines 252-318).      *)
(* Each rule yields the store operations it asks for, in program order:    *)
(*   "assert"  _create_unique_alert      "clear"  _auto_acknowledge_alert  *)
(*   "always"  the direct insert of UNAUTHORIZED_ACCESS                    *)
(***************************************************************************)
Op(o, t, sev, msg) == [op |-> o, alert_type |-> t, severity |-> sev, message |-> msg]

\* f"{x:.1f}" of a number in hundredths: the value in tenths
Format1f(n) == (n + 5) \div 10

\* variant: the status is compared without being upper-cased
FireAssertsCaseSensitive(telemetry) ==
    LET fire_status == PyStr(GetD(telemetry, "fire_status", Str("")))
    IN  Contains(fire_status, Chars("FIRE")) /\ fire_status # Chars("SAFE")

FireAsserts(telemetry) ==
    LET fire_status == Upper(PyStr(GetD(telemetry, "fire_status", Str(""))))
    IN  Contains(fire_status, Chars("FIRE")) /\ fire_status # Chars("SAFE")

FireRule(telemetry) ==
    IF FireAsserts(telemetry)
    THEN << Op("assert", "FIRE_DETECTED", "CRITICAL",
               <<"FIRE DETECTED! Sensor", GetD(telemetry, "fire_sensor_val", Str("N/A"))>>) >>
    ELSE << Op("clear", "FIRE_DETECTED", "", <<>>) >>

\* variant: the thresholds themselves count as out of range
TemperatureRuleInclusive(telemetry) ==
    LET temp == ParseFloat(Get(telemetry, "temperature"))
    IN  IF IsNone(temp) THEN <<>>
        ELSE IF temp[2] >= temperature_high
        THEN << Op("assert", "HIGH_TEMPERATURE", "WARNING",
                   <<"High Temperature", Format1f(temp[2]), GetD(telemetry, "ac_state", Str("N/A"))>>) >>
        ELSE IF temp[2] <= temperature_low
        THEN << Op("assert", "LOW_TEMPERATURE", "WARNING",
                   <<"Low Temperature", Format1f(temp[2]), GetD(telemetry, "furnace_state", Str("N/A"))>>) >>
        ELSE << Op("clear", "HIGH_TEMPERATURE", "", <<>>),
                Op("clear", "LOW_TEMPERATURE", "", <<>>) >>

TemperatureRule(telemetry) ==
    LET temp == ParseFloat(Get(telemetry, "temperature"))
    IN  IF IsNone(temp) THEN <<>>
        ELSE IF temp[2] > temperature_high
        THEN << Op("assert", "HIGH_TEMPERATURE", "WARNING",
                   <<"High Temperature", Format1f(temp[2]), GetD(telemetry, "ac_state", Str("N/A"))>>) >>
        ELSE IF temp[2] < temperature_low
        THEN << Op("assert", "LOW_TEMPERATURE", "WARNING",
                   <<"Low Temperature", Format1f(temp[2]), GetD(telemetry, "furnace_state", Str("N/A"))>>) >>
        ELSE << Op("clear", "HIGH_TEMPERATURE", "", <<>>),
                Op("clear", "LOW_TEMPERATURE", "", <<>>) >>

\* battery < threshold raises TypeError for a truthy non-number
BatteryRaises(telemetry) ==
    LET battery == Get(telemetry, "battery_level")
    IN  Truthy(battery) /\ ~IsNum(battery)

\* variant: the rule tests "is not None" instead of truthiness
BatteryRuleNotNone(telemetry) ==
    LET battery == Get(telemetry, "battery_level")
    IN  IF IsNone(battery) \/ ~IsNum(battery) THEN <<>>
        ELSE IF battery[2] < battery_low
        THEN << Op("assert", "LOW_BATTERY", "WARNING",
                   <<"Critical Battery", Format1f(battery[2]), GetD(telemetry, "led_brightness", Str("N/A"))>>) >>
        ELSE << Op("clear", "LOW_BATTERY", "", <<>>) >>

BatteryRule(telemetry) ==
    LET battery == Get(telemetry, "battery_level")
    IN  IF ~Truthy(battery) \/ ~IsNum(battery) THEN <<>>
        ELSE IF battery[2] < battery_low
        THEN << Op("assert", "LOW_BATTERY", "WARNING",
                   <<"Critical Battery", Format1f(battery[2]), GetD(telemetry, "led_brightness", Str("N/A"))>>) >>
        ELSE << Op("clear", "LOW_BATTERY", "", <<>>) >>

\* variant: the denial goes through _create_unique_alert like the other types
AccessRuleDeduplicated(telemetry) ==
    IF Get(telemetry, "access_log") = Str("DENIED")
    THEN << Op("assert", "UNAUTHORIZED_ACCESS", "WARNING",
               <<"Unauthorized Access Attempt", GetD(telemetry, "rfid_last_card", Str("Unknown"))>>) >>
    ELSE <<>>

AccessRule(telemetry) ==
    IF Get(telemetry, "access_log") = Str("DENIED")
    THEN << Op("always", "UNAUTHORIZED_ACCESS", "WARNING",
               <<"Unauthorized Access Attempt", GetD(telemetry, "rfid_last_card", Str("Unknown"))>>) >>
    ELSE <<>>

\* the operations one call of _check_and_create_alerts goes through; an
\* exception in the battery rule ends the call before the access rule
AlertPlan(telemetry) ==
    FireRule(telemetry) \o TemperatureRule(telemetry) \o
    (IF BatteryRaises(telemetry) THEN <<>>
     ELSE BatteryRule(telemetry) \o AccessRule(telemetry))

AlertTypes == {"FIRE_DETECTED", "HIGH_TEMPERATURE", "LOW_TEMPERATURE", "LOW_BATTERY",
               "UNAUTHORIZED_ACCESS"}

(***************************************************************************)
(* State                                                                   *)
(***************************************************************************)
VARIABLES
    partitions,   \* telemetry table name -> set of stored records
    factories,    \* factory primary key -> last_data_received (0: never)
    alerts,       \* table system_alerts: sequence of rows, a row's id is its index
    now,          \* the clock read by datetime.now(timezone.utc)
    nreq,         \* requests received so far
    pc,           \* handler -> position in do_POST
    req,          \* handler -> body of the request in hand
    ts,           \* handler -> telemetry['timestamp'] (line 104)
    ops,          \* handler -> alert operations still to perform
    found,        \* handler -> id of existing.data[0] (0: none)
    resp,         \* handler -> response sent for the request in hand
    calls         \* handler -> storage calls executed for the request in hand

store == <<partitions, factories, alerts>>
local == <<pc, req, ts, ops, found, resp, calls>>
vars == <<partitions, factories, alerts, now, nreq, pc, req, ts, ops, found, resp, calls>>

NoResp == [code |-> 0, status |-> ""]
Ok200 == [code |-> 200, status |-> "success"]
Err400 == [code |-> 400, status |-> "error"]
Err500 == [code |-> 500, status |-> "error"]

Init ==
    /\ partitions = [t \in Tables |-> {}]
    /\ factories = [f \in FactoryPks |-> 0]
    /\ alerts = <<>>
    /\ now = 0
    /\ nreq = 0
    /\ pc = [h \in Handlers |-> "idle"]
    /\ req = [h \in Handlers |-> [kind |-> "none"]]
    /\ ts = [h \in Handlers |-> 0]
    /\ ops = [h \in Handlers |-> <<>>]
    /\ found = [h \in Handlers |-> 0]
    /\ resp = [h \in Handlers |-> NoResp]
    /\ calls = [h \in Handlers |-> <<>>]

(***************************************************************************)
(* The request a handler has in hand                                       *)
(***************************************************************************)
ReqSystem(h) == SystemName(req[h].data)
ReqFactory(h) == FactoryId(req[h].data)
ReqPk(h) == FactoryPk(ReqFactory(h))

\* the mapped record with the metadata of lines 103-104
Telemetry(h) ==
    MapTelemetry(req[h].data, ReqSystem(h))
        @@ [system_name |-> ReqSystem(h), timestamp |-> <<"ts", ts[h]>>]

Call(h, name, type, ok) ==
    calls' = [calls EXCEPT ![h] = Append(@, <<name, type, ok>>)]

\* send_response + wfile.write: the request is over
Respond(h, r) ==
    /\ pc' = [pc EXCEPT ![h] = "done"]
    /\ resp' = [resp EXCEPT ![h] = r]
    /\ ops' = [ops EXCEPT ![h] = <<>>]

StepOf(o) ==
    CASE o.op = "assert" -> "lookup"
      [] o.op = "clear"  -> "ack"
      [] o.op = "always" -> "insert_ua"

\* go on with the remaining alert operations, then line 121
Continue(h, rest) ==
    IF rest = <<>>
    THEN Respond(h, Ok200)
    ELSE /\ pc' = [pc EXCEPT ![h] = StepOf(Head(rest))]
         /\ ops' = [ops EXCEPT ![h] = rest]
         /\ UNCHANGED resp

(***************************************************************************)
(* system_alerts queries                                                   *)
(***************************************************************************)
IsOpen(r, factory_pk, system_name, alert_type) ==
    /\ r.factory_id = factory_pk
    /\ r.system_name = system_name
    /\ r.alert_type = alert_type
    /\ r.acknowledged = FALSE

\* variant: the acknowledged filter tests the wrong value
FindOpenAlertsWrongFlag(factory_pk, system_name, alert_type) ==
    {i \in 1..Len(alerts) :
        /\ alerts[i].factory_id = factory_pk
        /\ alerts[i].system_name = system_name
        /\ alerts[i].alert_type = alert_type
        /\ alerts[i].acknowledged = TRUE}

\* ids selected by the four .eq filters of lines 330-336 and 374-377
FindOpenAlerts(factory_pk, system_name, alert_type) ==
    {i \in 1..Len(alerts) : IsOpen(alerts[i], factory_pk, system_name, alert_type)}

\* the row an insert into system_alerts creates (columns left out of the
\* insert take the table defaults)
NewAlert(factory_pk, o, system_name) ==
    [factory_id |-> factory_pk, alert_type |-> o.alert_type, severity |-> o.severity,
     message |-> o.message, system_name |-> system_name,
     acknowledged |-> FALSE, created_at |-> now,
     acknowledged_at |-> 0, acknowledged_by |-> ""]

(***************************************************************************)
(* do_POST lines 83-104 and 117-132: read, parse, route, map               *)
(***************************************************************************)
Receive(h, body) ==
    /\ pc[h] \in {"idle", "done"}
    /\ nreq < MaxRequests
    /\ nreq' = nreq + 1
    /\ now' = now + 1
    /\ req' = [req EXCEPT ![h] = body]
    /\ calls' = [calls EXCEPT ![h] = <<>>]
    /\ found' = [found EXCEPT ![h] = 0]
    /\ UNCHANGED store
    /\ IF body.kind = "bad_json"
       THEN Respond(h, Err400) /\ UNCHANGED ts
       ELSE IF body.kind # "object"
       THEN Respond(h, Err500) /\ UNCHANGED ts
       ELSE IF ~Hashable(FactoryId(body.data))
       THEN Respond(h, Err500) /\ UNCHANGED ts
       ELSE IF MapRaises(body.data, SystemName(body.data))
       THEN Respond(h, Err500) /\ UNCHANGED ts
       ELSE IF DOMAIN MapTelemetry(body.data, SystemName(body.data)) = {}
       THEN /\ Respond(h, IF Formattable(SystemName(body.data)) THEN Ok200 ELSE Err500)
            /\ UNCHANGED ts
       ELSE /\ ts' = [ts EXCEPT ![h] = now']
            /\ pc' = [pc EXCEPT ![h] = "insert"]
            /\ ops' = [ops EXCEPT ![h] = <<>>]
            /\ resp' = [resp EXCEPT ![h] = NoResp]

(***************************************************************************)
(* _insert_to_supabase (lines 203-232) and do_POST lines 107-115           *)
(***************************************************************************)
InsertTelemetry(h, ok) ==
    /\ pc[h] = "insert"
    /\ Call(h, "insert_telemetry", "", ok)
    /\ UNCHANGED <<factories, alerts, now, nreq, req, ts, found>>
    /\ IF ok
       THEN /\ partitions' = [partitions EXCEPT ![TableName(ReqFactory(h))] = @ \cup {Telemetry(h)}]
            /\ IF ReqPk(h) # 0
               THEN /\ pc' = [pc EXCEPT ![h] = "lastseen"]
                    /\ UNCHANGED <<ops, resp>>
               ELSE Respond(h, Ok200)
       ELSE /\ UNCHANGED partitions
            /\ Respond(h, Ok200)

UpdateLastSeen(h, ok) ==
    /\ pc[h] = "lastseen"
    /\ Call(h, "update_factory", "", ok)
    /\ UNCHANGED <<partitions, alerts, now, nreq, req, ts, found>>
    /\ IF ok
       THEN /\ factories' = [factories EXCEPT ![ReqPk(h)] = now]
            /\ Continue(h, AlertPlan(Telemetry(h)))
       ELSE /\ UNCHANGED factories
            /\ Respond(h, Ok200)

(***************************************************************************)
(* _create_unique_alert (lines 323-361)                                    *)
(***************************************************************************)
\* variant: an existing alert is rewritten without comparing the messages
LookupAlwaysUpdate(h, ok) ==
    /\ pc[h] = "lookup"
    /\ Call(h, "select_alert", Head(ops[h]).alert_type, ok)
    /\ UNCHANGED <<store, now, nreq, req, ts>>
    /\ LET o == Head(ops[h])
           existing == FindOpenAlerts(ReqPk(h), ReqSystem(h), o.alert_type)
       IN  IF ~ok
           THEN Continue(h, Tail(ops[h])) /\ UNCHANGED found
           ELSE IF existing = {}
           THEN /\ pc' = [pc EXCEPT ![h] = "insert_alert"]
                /\ found' = [found EXCEPT ![h] = 0]
                /\ UNCHANGED <<ops, resp>>
           ELSE \E alert_id \in existing :
                /\ found' = [found EXCEPT ![h] = alert_id]
                /\ pc' = [pc EXCEPT ![h] = "update"]
                /\ UNCHANGED <<ops, resp>>

Lookup(h, ok) ==
    /\ pc[h] = "lookup"
    /\ Call(h, "select_alert", Head(ops[h]).alert_type, ok)
    /\ UNCHANGED <<store, now, nreq, req, ts>>
    /\ LET o == Head(ops[h])
           existing == FindOpenAlerts(ReqPk(h), ReqSystem(h), o.alert_type)
       IN  IF ~ok
           THEN Continue(h, Tail(ops[h])) /\ UNCHANGED found
           ELSE IF existing = {}
           THEN /\ pc' = [pc EXCEPT ![h] = "insert_alert"]
                /\ found' = [found EXCEPT ![h] = 0]
                /\ UNCHANGED <<ops, resp>>
           ELSE \E alert_id \in existing :
                /\ found' = [found EXCEPT ![h] = alert_id]
                /\ IF alerts[alert_id].message # o.message
                   THEN /\ pc' = [pc EXCEPT ![h] = "update"]
                        /\ UNCHANGED <<ops, resp>>
                   ELSE Continue(h, Tail(ops[h]))

\* variant: the refreshed alert is written as a new row
UpdateAlertAsInsert(h, ok) ==
    /\ pc[h] = "update"
    /\ Call(h, "update_alert", Head(ops[h]).alert_type, ok)
    /\ UNCHANGED <<partitions, factories, now, nreq, req, ts, found>>
    /\ alerts' = IF ok
                 THEN Append(alerts, NewAlert(ReqPk(h), Head(ops[h]), ReqSystem(h)))
                 ELSE alerts
    /\ Continue(h, Tail(ops[h]))

\* variant: the refresh also writes acknowledged = false
UpdateAlertReopens(h, ok) ==
    /\ pc[h] = "update"
    /\ Call(h, "update_alert", Head(ops[h]).alert_type, ok)
    /\ UNCHANGED <<partitions, factories, now, nreq, req, ts, found>>
    /\ alerts' = IF ok
                 THEN [alerts EXCEPT ![found[h]].message = Head(ops[h]).message,
                                     ![found[h]].created_at = now,
                                     ![found[h]].acknowledged = FALSE]
                 ELSE alerts
    /\ Continue(h, Tail(ops[h]))

UpdateAlert(h, ok) ==
    /\ pc[h] = "update"
    /\ Call(h, "update_alert", Head(ops[h]).alert_type, ok)
    /\ UNCHANGED <<partitions, factories, now, nreq, req, ts, found>>
    /\ alerts' = IF ok
                 THEN [alerts EXCEPT ![found[h]].message = Head(ops[h]).message,
                                     ![found[h]].created_at = now]
                 ELSE alerts
    /\ Continue(h, Tail(ops[h]))

InsertAlert(h, ok) ==
    /\ pc[h] = "insert_alert"
    /\ Call(h, "insert_alert", Head(ops[h]).alert_type, ok)
    /\ UNCHANGED <<partitions, factories, now, nreq, req, ts, found>>
    /\ alerts' = IF ok
                 THEN Append(alerts, NewAlert(ReqPk(h), Head(ops[h]), ReqSystem(h)))
                 ELSE alerts
    /\ Continue(h, Tail(ops[h]))

(***************************************************************************)
(* _auto_acknowledge_alert (lines 363-380)                                 *)
(***************************************************************************)
\* variant: the update lacks the alert_type filter
AutoAcknowledgeAnyType(h, ok) ==
    /\ pc[h] = "ack"
    /\ Call(h, "ack_alert", Head(ops[h]).alert_type, ok)
    /\ UNCHANGED <<partitions, factories, now, nreq, req, ts, found>>
    /\ alerts' = IF ok
                 THEN [i \in 1..Len(alerts) |->
                         IF /\ alerts[i].factory_id = ReqPk(h)
                            /\ alerts[i].system_name = ReqSystem(h)
                            /\ alerts[i].acknowledged = FALSE
                         THEN [alerts[i] EXCEPT !.acknowledged = TRUE,
                                                !.acknowledged_at = now,
                                                !.acknowledged_by = "AUTO_RESOLVED"]
                         ELSE alerts[i]]
                 ELSE alerts
    /\ Continue(h, Tail(ops[h]))

\* variant: the update is filtered by alert type only
AutoAcknowledgeAnyTuple(h, ok) ==
    /\ pc[h] = "ack"
    /\ Call(h, "ack_alert", Head(ops[h]).alert_type, ok)
    /\ UNCHANGED <<partitions, factories, now, nreq, req, ts, found>>
    /\ alerts' = IF ok
                 THEN [i \in 1..Len(alerts) |->
                         IF /\ alerts[i].alert_type = Head(ops[h]).alert_type
                            /\ alerts[i].acknowledged = FALSE
                         THEN [alerts[i] EXCEPT !.acknowledged = TRUE,
                                                !.acknowledged_at = now,
                                                !.acknowledged_by = "AUTO_RESOLVED"]
                         ELSE alerts[i]]
                 ELSE alerts
    /\ Continue(h, Tail(ops[h]))

\* variant: the exception is not caught in the helper and ends the evaluation
AutoAcknowledgePropagates(h, ok) ==
    /\ pc[h] = "ack"
    /\ Call(h, "ack_alert", Head(ops[h]).alert_type, ok)
    /\ UNCHANGED <<partitions, factories, now, nreq, req, ts, found>>
    /\ alerts' = IF ok
                 THEN [i \in 1..Len(alerts) |->
                         IF i \in FindOpenAlerts(ReqPk(h), ReqSystem(h), Head(ops[h]).alert_type)
                         THEN [alerts[i] EXCEPT !.acknowledged = TRUE,
                                                !.acknowledged_at = now,
                                                !.acknowledged_by = "AUTO_RESOLVED"]
                         ELSE alerts[i]]
                 ELSE alerts
    /\ Continue(h, IF ok THEN Tail(ops[h]) ELSE <<>>)

AutoAcknowledge(h, ok) ==
    /\ pc[h] = "ack"
    /\ Call(h, "ack_alert", Head(ops[h]).alert_type, ok)
    /\ UNCHANGED <<partitions, factories, now, nreq, req, ts, found>>
    /\ alerts' = IF ok
                 THEN [i \in 1..Len(alerts) |->
                         IF i \in FindOpenAlerts(ReqPk(h), ReqSystem(h), Head(ops[h]).alert_type)
                         THEN [alerts[i] EXCEPT !.acknowledged = TRUE,
                                                !.acknowledged_at = now,
                                                !.acknowledged_by = "AUTO_RESOLVED"]
                         ELSE alerts[i]]
                 ELSE alerts
    /\ Continue(h, Tail(ops[h]))

(***************************************************************************)
(* UNAUTHORIZED_ACCESS insert (lines 308-318); an exception ends           *)
(* _check_and_create_alerts at line 320                                    *)
(***************************************************************************)
InsertUnauthorized(h, ok) ==
    /\ pc[h] = "insert_ua"
    /\ Call(h, "insert_alert", Head(ops[h]).alert_type, ok)
    /\ UNCHANGED <<partitions, factories, now, nreq, req, ts, found>>
    /\ alerts' = IF ok
                 THEN Append(alerts, NewAlert(ReqPk(h), Head(ops[h]), ReqSystem(h)))
                 ELSE alerts
    /\ Continue(h, IF ok THEN Tail(ops[h]) ELSE <<>>)

(***************************************************************************)
(* An operator acknowledges an open alert from outside the bridge          *)
(***************************************************************************)
OperatorAcknowledge(i) ==
    /\ i \in 1..Len(alerts)
    /\ alerts[i].acknowledged = FALSE
    /\ alerts' = [alerts EXCEPT ![i].acknowledged = TRUE,
                                ![i].acknowledged_at = now,
                                ![i].acknowledged_by = "operator"]
    /\ UNCHANGED <<partitions, factories, now, nreq, local>>

(***************************************************************************)
(* Specifications                                                          *)
(***************************************************************************)
Step(h, B) ==
    \/ \E body \in B : Receive(h, body)
    \/ \E ok \in BOOLEAN : InsertTelemetry(h, ok)
    \/ \E ok \in BOOLEAN : UpdateLastSeen(h, ok)
    \/ \E ok \in BOOLEAN : Lookup(h, ok)
    \/ \E ok \in BOOLEAN : UpdateAlert(h, ok)
    \/ \E ok \in BOOLEAN : InsertAlert(h, ok)
    \/ \E ok \in BOOLEAN : AutoAcknowledge(h, ok)
    \/ \E ok \in BOOLEAN : InsertUnauthorized(h, ok)

Operator == \E i \in 1..Len(alerts) : OperatorAcknowledge(i)

\* HTTPServer.serve_forever handles one request at a time (line 397)
Next == Step(1, Bodies) \/ Operator

Spec == Init /\ [][Next]_vars

\* one request at a time, the store available throughout and nobody else
\* writing to it
StepAvailable(h, B) ==
    \/ \E body \in B : Receive(h, body)
    \/ InsertTelemetry(h, TRUE)
    \/ UpdateLastSeen(h, TRUE)
    \/ Lookup(h, TRUE)
    \/ UpdateAlert(h, TRUE)
    \/ InsertAlert(h, TRUE)
    \/ AutoAcknowledge(h, TRUE)
    \/ InsertUnauthorized(h, TRUE)

NextAvail == StepAvailable(1, ReadingBodies)

SpecAvail == Init /\ [][NextAvail]_vars

\* several bridge handlers working on the same store at once
NextConc == (\E h \in Handlers : Step(h, ConcBodies)) \/ Operator

SpecConc == Init /\ [][NextConc]_vars

(***************************************************************************)
(* Vocabulary of the properties                                            *)
(***************************************************************************)
RecognizedSystems ==
    {Str("Fire_Control"), Str("Conveyor_Belt"), Str("Weight_System"), Str("Garage_Door"),
     Str("Battery_System"), Str("HVAC_System"), Str("Safe_Room")}

AlertCalls == {"select_alert", "update_alert", "insert_alert", "ack_alert"}

\* handler h has executed the storage call <<name, type>> with outcome ok
Called(h, name, type, ok) ==
    \E k \in 1..Len(calls[h]) : calls[h][k] = <<name, type, ok>>

\* some storage call of kind name failed for the request h has in hand
CallFailed(h, names) ==
    \E k \in 1..Len(calls[h]) : calls[h][k][1] \in names /\ ~calls[h][k][3]

\* this step is handler h executing the storage call <<name, type>> with outcome ok
Executes(h, name, type, ok) ==
    calls'[h] = Append(calls[h], <<name, type, ok>>)

\* the mapper returned a record for the request h has in hand
Mapped(h) == ~MapRaises(req[h].data, ReqSystem(h))

SameTuple(r1, r2) ==
    /\ r1.factory_id = r2.factory_id
    /\ r1.system_name = r2.system_name
    /\ r1.alert_type = r2.alert_type

(***************************************************************************)
(* C1: with requests handled one at a time, under any storage failures and *)
(* operator acknowledgements, no two distinct unacknowledged rows share a  *)
(* (factory, subsystem, alert type) other than UNAUTHORIZED_ACCESS.        *)
(***************************************************************************)
AtMostOneOpenAlert ==
    \A i, j \in 1..Len(alerts) :
        ( /\ alerts[i].alert_type # "UNAUTHORIZED_ACCESS"
          /\ ~alerts[i].acknowledged
          /\ ~alerts[j].acknowledged
          /\ SameTuple(alerts[i], alerts[j]) ) => i = j

\* a second assert met the open alert of the first one and refreshed it
SecondAssertMetOpenAlert ==
    /\ pc[1] = "done"
    /\ Called(1, "update_alert", "FIRE_DETECTED", TRUE)
    /\ \E i \in 1..Len(alerts) : alerts[i].alert_type = "FIRE_DETECTED" /\ ~alerts[i].acknowledged

(***************************************************************************)
(* C2: with handlers working concurrently, every (factory, subsystem,      *)
(* alert type) other than UNAUTHORIZED_ACCESS has at most one open row at  *)
(* every moment.                                                           *)
(***************************************************************************)
OneOpenAlertPerTupleConcurrent ==
    \A i \in 1..Len(alerts) :
        alerts[i].alert_type # "UNAUTHORIZED_ACCESS" =>
            Cardinality(FindOpenAlerts(alerts[i].factory_id, alerts[i].system_name,
                                       alerts[i].alert_type)) <= 1

(***************************************************************************)
(* C3: when the telemetry insert of a request fails and its reading        *)
(* asserts FIRE_DETECTED (known factory, alert store available), the       *)
(* finished request has left an alert row carrying its message.            *)
(***************************************************************************)
AlertDespiteSaveFailure ==
    \A h \in Handlers :
        ( /\ pc[h] = "done"
          /\ req[h].kind = "object"
          /\ Called(h, "insert_telemetry", "", FALSE)
          /\ ReqPk(h) # 0
          /\ FireAsserts(Telemetry(h))
          /\ ~CallFailed(h, AlertCalls) )
        => \E i \in 1..Len(alerts) :
              /\ alerts[i].factory_id = ReqPk(h)
              /\ alerts[i].system_name = ReqSystem(h)
              /\ alerts[i].alert_type = "FIRE_DETECTED"
              /\ alerts[i].message = FireRule(Telemetry(h))[1].message

(***************************************************************************)
(* C4: every finished request whose body is a JSON object was answered     *)
(* with 200 / "success".                                                   *)
(***************************************************************************)
ObjectBodyAnsweredSuccess ==
    \A h \in Handlers :
        (pc[h] = "done" /\ req[h].kind = "object") => resp[h] = Ok200

(***************************************************************************)
(* C5: every finished request whose body could not be parsed was answered  *)
(* with 400 and executed no storage call.                                  *)
(***************************************************************************)
UnparseableBodies == {"bad_json", "bad_utf8"}

UnparseableAnswered400 ==
    \A h \in Handlers :
        (pc[h] = "done" /\ req[h].kind \in UnparseableBodies)
        => (resp[h].code = 400 /\ calls[h] = <<>>)

(***************************************************************************)
(* C6: a finished request with a factory key outside the mapping, all of   *)
(* whose storage calls succeeded, has its record in the default factory's  *)
(* partition and, when the reading asserts FIRE_DETECTED, an alert row     *)
(* under the default factory's primary key.                                *)
(***************************************************************************)
UnknownFactory(h) ==
    /\ req[h].kind = "object"
    /\ Hashable(ReqFactory(h))
    /\ ~(IsStr(ReqFactory(h)) /\ ReqFactory(h)[2] \in DOMAIN FACTORY_MAPPING)

UnknownFactoryHandledAsDefault ==
    \A h \in Handlers :
        ( /\ pc[h] = "done"
          /\ UnknownFactory(h)
          /\ ReqSystem(h) \in RecognizedSystems
          /\ ~CallFailed(h, AlertCalls \cup {"insert_telemetry", "update_factory"}) )
        => /\ Telemetry(h) \in partitions[FACTORY_MAPPING[DEFAULT_FACTORY]]
           /\ FireAsserts(Telemetry(h)) =>
                 \E i \in 1..Len(alerts) :
                    /\ alerts[i].factory_id = factory_lookup[DEFAULT_FACTORY]
                    /\ alerts[i].system_name = ReqSystem(h)
                    /\ alerts[i].alert_type = "FIRE_DETECTED"

(***************************************************************************)
(* C7: a finished request whose subsystem identifier is none of the seven  *)
(* recognized names executed no storage call and was answered with         *)
(* 200 / "success".                                                        *)
(***************************************************************************)
UnrecognizedSubsystemSuccess ==
    \A h \in Handlers :
        ( /\ pc[h] = "done"
          /\ req[h].kind = "object"
          /\ Hashable(ReqFactory(h))
          /\ ReqSystem(h) \notin RecognizedSystems )
        => /\ DOMAIN MapTelemetry(req[h].data, ReqSystem(h)) = {}
           /\ calls[h] = <<>>
           /\ resp[h] = Ok200

(***************************************************************************)
(* C8: an assert whose lookup (storage available) meets an open alert of   *)
(* its tuple carrying the same message writes nothing: the alert table is  *)
(* unchanged, the handler goes on to its next operation without an update  *)
(* or insert, and the tuple keeps exactly one open row.                    *)
(***************************************************************************)
IdempotentAssertStep(h) ==
    LET o == Head(ops[h])
        existing == FindOpenAlerts(ReqPk(h), ReqSystem(h), o.alert_type)
    IN  ( /\ pc[h] = "lookup"
          /\ Executes(h, "select_alert", o.alert_type, TRUE)
          /\ \E i \in existing : alerts[i].message = o.message )
        => /\ alerts' = alerts
           /\ pc'[h] \notin {"update", "insert_alert"}
           /\ ops'[h] = IF Len(ops[h]) = 1 THEN <<>> ELSE Tail(ops[h])
           /\ Cardinality(existing) = 1

IdempotentAssert == [][\A h \in Handlers : IdempotentAssertStep(h)]_vars

\* the request ended right after a successful lookup that met an open alert
RepeatedAssertWroteNothing ==
    /\ pc[1] = "done"
    /\ calls[1] = << <<"insert_telemetry", "", TRUE>>, <<"update_factory", "", TRUE>>,
                     <<"select_alert", "FIRE_DETECTED", TRUE>> >>
    /\ Cardinality(FindOpenAlerts(ReqPk(1), ReqSystem(1), "FIRE_DETECTED")) = 1
    /\ Len(alerts) = 1

(***************************************************************************)
(* C9: an assert whose lookup meets an open alert with another message     *)
(* goes to the update, never to an insert; the update rewrites message and *)
(* created_at of that row only: the table keeps its length, the row keeps  *)
(* its id, tuple, severity and acknowledged flag, other rows are untouched.*)
(***************************************************************************)
UpdateInPlaceStep(h) ==
    LET o == Head(ops[h])
        existing == FindOpenAlerts(ReqPk(h), ReqSystem(h), o.alert_type)
        id == found[h]
    IN  /\ ( /\ pc[h] = "lookup"
             /\ Executes(h, "select_alert", o.alert_type, TRUE)
             /\ existing # {}
             /\ \A i \in existing : alerts[i].message # o.message )
           => (pc'[h] = "update" /\ found'[h] \in existing /\ alerts' = alerts)
        /\ ( /\ pc[h] = "update"
             /\ Executes(h, "update_alert", o.alert_type, TRUE) )
           => /\ Len(alerts') = Len(alerts)
              /\ alerts'[id].message = o.message
              /\ alerts'[id].created_at = now
              /\ SameTuple(alerts'[id], alerts[id])
              /\ alerts'[id].severity = alerts[id].severity
              /\ alerts'[id].acknowledged = alerts[id].acknowledged
              /\ alerts'[id].acknowledged_at = alerts[id].acknowledged_at
              /\ alerts'[id].acknowledged_by = alerts[id].acknowledged_by
              /\ \A i \in 1..Len(alerts) : i # id => alerts'[i] = alerts[i]

UpdateInPlace == [][\A h \in Handlers : UpdateInPlaceStep(h)]_vars

\* the only alert row, created by an earlier request, now carries the
\* message and the time of the second assert and is still open
AlertRefreshedInPlace ==
    /\ pc[1] = "done"
    /\ nreq = 2
    /\ Called(1, "update_alert", "FIRE_DETECTED", TRUE)
    /\ Len(alerts) = 1
    /\ alerts[1].message = FireRule(Telemetry(1))[1].message
    /\ alerts[1].created_at = 2
    /\ alerts[1].severity = "CRITICAL"
    /\ ~alerts[1].acknowledged

(***************************************************************************)
(* C10: a clear executed with storage available acknowledges exactly the   *)
(* open rows of its (factory, subsystem, alert type), stamping them with   *)
(* the current time and "AUTO_RESOLVED"; it leaves no open row for the     *)
(* tuple, leaves every other row as it was, and changes nothing when the   *)
(* tuple has no open row.                                                  *)
(***************************************************************************)
ClearStep(h) ==
    LET o == Head(ops[h])
        open == FindOpenAlerts(ReqPk(h), ReqSystem(h), o.alert_type)
    IN  ( /\ pc[h] = "ack"
          /\ Executes(h, "ack_alert", o.alert_type, TRUE) )
        => /\ Len(alerts') = Len(alerts)
           /\ \A i \in 1..Len(alerts) :
                 IF i \in open
                 THEN /\ alerts'[i].acknowledged = TRUE
                      /\ alerts'[i].acknowledged_at = now
                      /\ alerts'[i].acknowledged_by = "AUTO_RESOLVED"
                      /\ alerts'[i].message = alerts[i].message
                      /\ alerts'[i].created_at = alerts[i].created_at
                 ELSE alerts'[i] = alerts[i]
           /\ open = {} => alerts' = alerts
           /\ \A i \in 1..Len(alerts') :
                 ~IsOpen(alerts'[i], ReqPk(h), ReqSystem(h), o.alert_type)

ClearResolves == [][\A h \in Handlers : ClearStep(h)]_vars

\* a clear has just acknowledged the alert an earlier request opened
AlertAutoResolved ==
    /\ pc[1] = "done"
    /\ Called(1, "ack_alert", "FIRE_DETECTED", TRUE)
    /\ \E i \in 1..Len(alerts) :
          /\ alerts[i].alert_type = "FIRE_DETECTED"
          /\ alerts[i].factory_id = ReqPk(1)
          /\ alerts[i].system_name = ReqSystem(1)
          /\ alerts[i].acknowledged
          /\ alerts[i].acknowledged_by = "AUTO_RESOLVED"
          /\ alerts[i].acknowledged_at = now
          /\ alerts[i].created_at < now

(***************************************************************************)
(* C11: with the store available, a finished Safe_Room request with access *)
(* "DENIED" has inserted an UNAUTHORIZED_ACCESS row without any lookup of  *)
(* that type; between requests there are as many UNAUTHORIZED_ACCESS rows  *)
(* as denied events stored, all of them open; the insert appends one open  *)
(* row and no step of any request changes an UNAUTHORIZED_ACCESS row.      *)
(***************************************************************************)
IsDenied(record) ==
    "access_log" \in DOMAIN record /\ record.access_log = Str("DENIED")

UnauthorizedRows == {i \in 1..Len(alerts) : alerts[i].alert_type = "UNAUTHORIZED_ACCESS"}

DenialsEachTheirOwnRow ==
    \A h \in Handlers :
        pc[h] = "done" =>
            /\ ( req[h].kind = "object" /\ ReqPk(h) # 0 /\ IsDenied(Telemetry(h)) )
               => /\ Called(h, "insert_alert", "UNAUTHORIZED_ACCESS", TRUE)
                  /\ ~Called(h, "select_alert", "UNAUTHORIZED_ACCESS", TRUE)
                  /\ ~Called(h, "ack_alert", "UNAUTHORIZED_ACCESS", TRUE)
            /\ Cardinality(UnauthorizedRows)
                  = Cardinality({r \in UNION {partitions[t] : t \in Tables} : IsDenied(r)})
            /\ \A i \in UnauthorizedRows : ~alerts[i].acknowledged

UnauthorizedStep(h) ==
    /\ ( pc[h] = "insert_ua"
         /\ Executes(h, "insert_alert", "UNAUTHORIZED_ACCESS", TRUE) )
       => /\ Len(alerts') = Len(alerts) + 1
          /\ alerts'[Len(alerts')].alert_type = "UNAUTHORIZED_ACCESS"
          /\ alerts'[Len(alerts')].factory_id = ReqPk(h)
          /\ alerts'[Len(alerts')].system_name = ReqSystem(h)
          /\ ~alerts'[Len(alerts')].acknowledged
    /\ \A i \in UnauthorizedRows : alerts'[i] = alerts[i]

UnauthorizedAccessExempt ==
    []DenialsEachTheirOwnRow /\ [][\A h \in Handlers : UnauthorizedStep(h)]_vars

\* two denied events in a row have left two open rows of the same tuple
TwoDenialsTwoOpenRows ==
    /\ pc[1] = "done"
    /\ Len(alerts) = 2
    /\ UnauthorizedRows = {1, 2}
    /\ SameTuple(alerts[1], alerts[2])
    /\ ~alerts[1].acknowledged /\ ~alerts[2].acknowledged
    /\ alerts[1].created_at < alerts[2].created_at

(***************************************************************************)
(* C12: a finished request whose record was saved (so that its alerts were *)
(* evaluated) has started the store operation of every alert type its      *)
(* rules ask for, whichever of these calls failed, and was answered with   *)
(* 200 / "success".                                                        *)
(***************************************************************************)
FirstCall(o) ==
    CASE o.op = "assert" -> "select_alert"
      [] o.op = "clear"  -> "ack_alert"
      [] o.op = "always" -> "insert_alert"

RuleOutcomes(telemetry) ==
    FireRule(telemetry) \o TemperatureRule(telemetry) \o BatteryRule(telemetry)
        \o AccessRule(telemetry)

SiblingAlertsEvaluated ==
    \A h \in Handlers :
        ( /\ pc[h] = "done"
          /\ req[h].kind = "object"
          /\ Called(h, "update_factory", "", TRUE)
          /\ ~BatteryRaises(Telemetry(h)) )
        => /\ \A k \in 1..Len(RuleOutcomes(Telemetry(h))) :
                 \E j \in 1..Len(calls[h]) :
                    /\ calls[h][j][1] = FirstCall(RuleOutcomes(Telemetry(h))[k])
                    /\ calls[h][j][2] = RuleOutcomes(Telemetry(h))[k].alert_type
           /\ resp[h] = Ok200

\* the call for one alert type failed and a later alert type was still served
LaterTypeServedAfterFailure ==
    /\ pc[1] = "done"
    /\ resp[1] = Ok200
    /\ \E j, k \in 1..Len(calls[1]) :
          /\ j < k
          /\ calls[1][j][1] \in AlertCalls /\ ~calls[1][j][3]
          /\ calls[1][k][1] \in AlertCalls /\ calls[1][k][3]
          /\ calls[1][k][2] # calls[1][j][2]

(***************************************************************************)
(* C13: no step removes an alert row or turns a row's acknowledged flag    *)
(* from true back to false: every row keeps its place and its (factory,    *)
(* subsystem, alert type), an acknowledged row stays acknowledged, and the *)
(* number of rows never decreases.                                         *)
(***************************************************************************)
HistoryKeptStep ==
    /\ Len(alerts') >= Len(alerts)
    /\ \A i \in 1..Len(alerts) :
          /\ SameTuple(alerts'[i], alerts[i])
          /\ alerts[i].acknowledged => alerts'[i].acknowledged

HistoryKept == [][HistoryKeptStep]_vars

\* an acknowledged row is still there, acknowledged, after a later request
\* has raised a new alert for the same tuple
AcknowledgedRowOutlivedReassert ==
    /\ pc[1] = "done"
    /\ Len(alerts) = 2
    /\ SameTuple(alerts[1], alerts[2])
    /\ alerts[1].acknowledged /\ ~alerts[2].acknowledged
    /\ Called(1, "insert_alert", alerts[2].alert_type, TRUE)

(***************************************************************************)
(* C14: with storage available, once an HVAC_System reading with non-null  *)
(* temperature t has been processed, an open HIGH_TEMPERATURE alert of its *)
(* (factory, subsystem) exists only if t > temperature_high and an open    *)
(* LOW_TEMPERATURE alert only if t < temperature_low.                      *)
(***************************************************************************)
OpenTemperatureAlertsFollowReading ==
    \A h \in Handlers :
        LET temp == ParseFloat(Get(Telemetry(h), "temperature"))
        IN  ( /\ pc[h] = "done"
              /\ req[h].kind = "object"
              /\ ReqSystem(h) = Str("HVAC_System")
              /\ ReqPk(h) # 0
              /\ ~IsNone(temp) )
            => /\ FindOpenAlerts(ReqPk(h), ReqSystem(h), "HIGH_TEMPERATURE") # {}
                    => temp[2] > temperature_high
               /\ FindOpenAlerts(ReqPk(h), ReqSystem(h), "LOW_TEMPERATURE") # {}
                    => temp[2] < temperature_low

(***************************************************************************)
(* C15: with storage available, the calls a finished request made for the  *)
(* two temperature types are: the lookup, insert or refresh of             *)
(* HIGH_TEMPERATURE alone (leaving an open WARNING row) when temperature > *)
(* temperature_high; the same for LOW_TEMPERATURE alone when temperature < *)
(* temperature_low; the acknowledgement of HIGH and then of LOW when the   *)
(* temperature is within the thresholds, bounds included; none at all when *)
(* the record has no temperature or a null one.                            *)
(***************************************************************************)
CallsOfTypes(h, types) ==
    LET OfTypes(c) == c[2] \in types
        kept == SelectSeq(calls[h], OfTypes)
    IN  [k \in 1..Len(kept) |-> <<kept[k][1], kept[k][2]>>]

\* an Assert: the lookup, then the insert of a new row, the refresh of the
\* open one, or nothing when the open one already carries the message
AssertCalls(type) ==
    { << <<"select_alert", type>>, <<"insert_alert", type>> >>,
      << <<"select_alert", type>>, <<"update_alert", type>> >>,
      << <<"select_alert", type>> >> }

OpenRowWithSeverity(h, type, severity) ==
    \E i \in 1..Len(alerts) :
        /\ IsOpen(alerts[i], ReqPk(h), ReqSystem(h), type)
        /\ alerts[i].severity = severity

TemperatureRulesFollowed ==
    \A h \in Handlers :
        LET t == Get(Telemetry(h), "temperature")
            made == CallsOfTypes(h, {"HIGH_TEMPERATURE", "LOW_TEMPERATURE"})
        IN  ( /\ pc[h] = "done"
              /\ req[h].kind = "object"
              /\ ReqSystem(h) \in RecognizedSystems
              /\ Mapped(h)
              /\ ReqPk(h) # 0 )
            => CASE IsNone(t) -> made = <<>>
                 [] IsNum(t) /\ t[2] > temperature_high ->
                        /\ made \in AssertCalls("HIGH_TEMPERATURE")
                        /\ OpenRowWithSeverity(h, "HIGH_TEMPERATURE", "WARNING")
                 [] IsNum(t) /\ t[2] < temperature_low ->
                        /\ made \in AssertCalls("LOW_TEMPERATURE")
                        /\ OpenRowWithSeverity(h, "LOW_TEMPERATURE", "WARNING")
                 [] IsNum(t) /\ t[2] >= temperature_low /\ t[2] <= temperature_high ->
                        made = << <<"ack_alert", "HIGH_TEMPERATURE">>,
                                  <<"ack_alert", "LOW_TEMPERATURE">> >>

\* a reading exactly at the upper threshold acknowledged the open
\* HIGH_TEMPERATURE alert of an earlier reading
ThresholdReadingCleared ==
    /\ pc[1] = "done"
    /\ Get(Telemetry(1), "temperature") = Num(temperature_high)
    /\ Called(1, "ack_alert", "HIGH_TEMPERATURE", TRUE)
    /\ \E i \in 1..Len(alerts) :
          /\ alerts[i].alert_type = "HIGH_TEMPERATURE"
          /\ alerts[i].acknowledged_by = "AUTO_RESOLVED"

(***************************************************************************)
(* C16: with storage available, a finished request of a recognized         *)
(* subsystem has asserted FIRE_DETECTED, leaving an open CRITICAL row for  *)
(* its (factory, subsystem), exactly when its record carries a status that *)
(* contains "FIRE" once upper-cased; in every other case, a record without *)
(* status included, its only FIRE_DETECTED call is the acknowledgement and *)
(* no FIRE_DETECTED row of its (factory, subsystem) is open.               *)
(***************************************************************************)
StatusHasFire(telemetry) ==
    /\ "fire_status" \in DOMAIN telemetry
    /\ IsStr(telemetry.fire_status)
    /\ Contains(Upper(Chars(telemetry.fire_status[2])), Chars("FIRE"))

FireRuleFollowed ==
    \A h \in Handlers :
        LET made == CallsOfTypes(h, {"FIRE_DETECTED"})
        IN  ( /\ pc[h] = "done"
              /\ req[h].kind = "object"
              /\ ReqSystem(h) \in RecognizedSystems
              /\ Mapped(h)
              /\ ReqPk(h) # 0 )
            => IF StatusHasFire(Telemetry(h))
               THEN /\ made \in AssertCalls("FIRE_DETECTED")
                    /\ OpenRowWithSeverity(h, "FIRE_DETECTED", "CRITICAL")
               ELSE /\ made = << <<"ack_alert", "FIRE_DETECTED">> >>
                    /\ FindOpenAlerts(ReqPk(h), ReqSystem(h), "FIRE_DETECTED") = {}

\* a lower-case status raised the alert and a later SAFE status resolved it
LowerCaseFireRaisedThenCleared ==
    /\ pc[1] = "done"
    /\ Get(Telemetry(1), "fire_status") = Str("SAFE")
    /\ Called(1, "ack_alert", "FIRE_DETECTED", TRUE)
    /\ \E i \in 1..Len(alerts) :
          /\ alerts[i].alert_type = "FIRE_DETECTED"
          /\ alerts[i].severity = "CRITICAL"
          /\ alerts[i].acknowledged_by = "AUTO_RESOLVED"
          /\ \E r \in partitions[TableName(ReqFactory(1))] :
                Get(r, "fire_status") = Str("fire")

(***************************************************************************)
(* C17: with storage available, a request whose record has battery level 0 *)
(* or none makes no LOW_BATTERY call and none of its steps changes a       *)
(* LOW_BATTERY row; a finished request with a nonzero level b has asserted *)
(* LOW_BATTERY, leaving an open WARNING row, when b < battery_low, and has *)
(* acknowledged it, leaving no open row, when b >= battery_low.            *)
(***************************************************************************)
BatterySkipped(telemetry) ==
    LET b == Get(telemetry, "battery_level")
    IN  IsNone(b) \/ b = Num(0)

BatteryRuleFollowed ==
    \A h \in Handlers :
        LET b == Get(Telemetry(h), "battery_level")
            made == CallsOfTypes(h, {"LOW_BATTERY"})
        IN  ( /\ req[h].kind = "object"
              /\ ReqSystem(h) \in RecognizedSystems
              /\ Mapped(h)
              /\ ReqPk(h) # 0 )
            => /\ BatterySkipped(Telemetry(h)) => made = <<>>
               /\ (pc[h] = "done" /\ IsNum(b) /\ b[2] # 0 /\ b[2] < battery_low)
                     => /\ made \in AssertCalls("LOW_BATTERY")
                        /\ OpenRowWithSeverity(h, "LOW_BATTERY", "WARNING")
               /\ (pc[h] = "done" /\ IsNum(b) /\ b[2] >= battery_low)
                     => /\ made = << <<"ack_alert", "LOW_BATTERY">> >>
                        /\ FindOpenAlerts(ReqPk(h), ReqSystem(h), "LOW_BATTERY") = {}

BatterySkipStep(h) ==
    ( /\ calls'[h] # calls[h]
      /\ BatterySkipped(Telemetry(h)) )
    => /\ Len(alerts') >= Len(alerts)
       /\ \A i \in 1..Len(alerts') :
             alerts'[i].alert_type = "LOW_BATTERY"
                => i <= Len(alerts) /\ alerts'[i] = alerts[i]

BatteryZeroSkipped ==
    []BatteryRuleFollowed /\ [][\A h \in Handlers : BatterySkipStep(h)]_vars

\* a reading of level 0 was processed and the LOW_BATTERY alert an earlier
\* reading raised is still open
ZeroLevelLeftAlertOpen ==
    /\ pc[1] = "done"
    /\ Get(Telemetry(1), "battery_level") = Num(0)
    /\ Called(1, "ack_alert", "FIRE_DETECTED", TRUE)
    /\ FindOpenAlerts(ReqPk(1), ReqSystem(1), "LOW_BATTERY") # {}

(***************************************************************************)
(* C18: a storage call made by the handler of a request for (factory f,    *)
(* subsystem s) creates or changes only alert rows of f and s, whatever    *)
(* the other handlers are doing; every other row keeps its place and its   *)
(* content.                                                                *)
(***************************************************************************)
OwnPairOnlyStep(h) ==
    (Len(calls'[h]) = Len(calls[h]) + 1)
    => /\ Len(alerts') >= Len(alerts)
       /\ \A i \in 1..Len(alerts') :
             (i > Len(alerts) \/ alerts'[i] # alerts[i])
                => /\ alerts'[i].factory_id = ReqPk(h)
                   /\ alerts'[i].system_name = ReqSystem(h)

IndependentPairs == [][\A h \in Handlers : OwnPairOnlyStep(h)]_vars

\* a Safe_Room request of factory 2 cleared and created its alerts while the
\* FIRE_DETECTED alert of Fire_Control in factory 1 was open, and left it open
OtherPairLeftOpen ==
    /\ pc[2] = "done"
    /\ ReqPk(2) = 2 /\ ReqSystem(2) = Str("Safe_Room")
    /\ Called(2, "ack_alert", "FIRE_DETECTED", TRUE)
    /\ \E i, j \in 1..Len(alerts) :
          /\ i < j
          /\ IsOpen(alerts[i], 1, Str("Fire_Control"), "FIRE_DETECTED")
          /\ alerts[j].factory_id = 2
          /\ alerts[j].alert_type = "UNAUTHORIZED_ACCESS"

(***************************************************************************)
(* C19: for an HVAC_System payload the mapper returns a record, and the    *)
(* record has the key temperature: the parsed number when the raw          *)
(* temperature is parseable, null when it is unparseable or absent.        *)
(***************************************************************************)
HvacRecordCarriesTemperature ==
    \A h \in Handlers :
        ( /\ req[h].kind = "object"
          /\ ReqSystem(h) = Str("HVAC_System") )
        => LET raw == Get(req[h].data, "temperature")
               record == MapTelemetry(req[h].data, ReqSystem(h))
           IN  /\ ~MapRaises(req[h].data, ReqSystem(h))
               /\ "temperature" \in DOMAIN record
               /\ record.temperature =
                     CASE IsNum(raw)         -> raw
                       [] raw = Str("35.5")  -> Num(3550)
                       [] OTHER              -> None

(***************************************************************************)
(* C20: a finished request of a known factory took the "Data Saved" path,  *)
(* on which its alerts are evaluated, exactly when the insert of its       *)
(* record into the partition succeeded.                                    *)
(***************************************************************************)
AlertsEvaluated(h) ==
    \E k \in 1..Len(calls[h]) : calls[h][k][1] \in AlertCalls

SavedExactlyWhenStored ==
    \A h \in Handlers :
        ( /\ pc[h] = "done"
          /\ req[h].kind = "object"
          /\ ReqPk(h) # 0
          /\ calls[h] # <<>> )
        => (AlertsEvaluated(h) <=> Called(h, "insert_telemetry", "", TRUE))

(***************************************************************************)
(* C21: with handlers working concurrently and the operator acknowledging, *)
(* a step rewrites the message or the creation time of an alert row only   *)
(* if the row is unacknowledged when the step is taken.                    *)
(***************************************************************************)
RewrittenOnlyWhileOpenStep ==
    \A i \in 1..Len(alerts) :
        ( \/ alerts'[i].message # alerts[i].message
          \/ alerts'[i].created_at # alerts[i].created_at )
        => ~alerts[i].acknowledged

AcknowledgedNeverRewritten == [][RewrittenOnlyWhileOpenStep]_vars

====
